---- MODULE Spec2Model ----
(***************************************************************************)
(* A model of scripts/filter_photos.py: the MacPhotosFilter session, its   *)
(* criteria setters, filter_media, and the writers that consume the        *)
(* filtered list.                                                          *)
(*                                                                         *)
(* Encoding.  Python's None is the empty tuple <<>>; an optional value x   *)
(* that is present is <<x>>, except a coordinate pair, which is the tuple  *)
(* <<lat, lon>> itself, so that Python's truth test `if coords:` is        *)
(* `coords # None`.  Dates are whole days.  Coordinates are points of the  *)
(* equator, <<0, c>> being the point whose longitude is the float nearest  *)
(* to c km east of <<0, 0>>.  The distance the code compares is the float  *)
(* geodesic(a, b).km computes from two such pairs, which need not be the   *)
(* whole number of km between them: it is the pair <<km, r>> of that whole *)
(* number and the sign r of the rounding error, -1 for a float just below  *)
(* km, 0 for km itself, 1 for a float just above.  max_distance_km is a    *)
(* whole number of km, which a float holds exactly.                        *)
(***************************************************************************)
EXTENDS Integers, Sequences, FiniteSets, TLC

VARIABLES
    pc,               \* "new": no session yet; "ready": constructed; "failed": __init__ raised
    home_address,     \* self.home_address
    start_date,       \* self.start_date
    end_date,         \* self.end_date
    target_location,  \* self.target_location
    max_distance_km,  \* self.max_distance_km
    photosdb,         \* what self.photosdb.photos() enumerates
    filtered_media,   \* self.filtered_media
    rounding,         \* how geodesic(a, b).km rounds on this machine for a # b
    filter_returned,  \* history: <<what the most recent filter_media returned>>, None if none
                      \* was called since construction or the last clear_filters
    last              \* the last call: its name, its inputs, what it returned, raised and wrote

vars == <<pc, home_address, start_date, end_date, target_location,
          max_distance_km, photosdb, filtered_media, rounding, filter_returned,
          last>>

criteria == <<start_date, end_date, target_location, max_distance_km>>

----------------------------------------------------------------------------
(* Bounds of the model *)

\* Dates are the days Epoch..MaxDate
MaxDate == 1
\* Coordinates are the points <<0, 0>>..<<0, MaxCoord>>
MaxCoord == 1
\* set_distance_km and the config give a distance in 0..MaxDist
MaxDist == 1
\* save_thumbnails is called with max_media in 0..MaxMedia
MaxMedia == 2
\* The libraries of SpecFilter hold at most MaxPhotos records
MaxPhotos == 2
\* The filtered lists of SpecWriters hold at most MaxFiltered records
MaxFiltered == 3

(* Program constants *)

\* float(defaults.get("max_distance_km", 2.0))
DefaultMaxDistanceKm == 2
\* start_date: datetime = datetime(1970, 1, 1)
Epoch == 0

----------------------------------------------------------------------------
(* Value domains *)

None == <<>>

Dates == Epoch..MaxDate
\* datetime.now() at a call: a day whose yesterday is a date of the model
Clock == (Epoch + 1)..(MaxDate + 1)
Locations == {<<0, c>> : c \in 0..MaxCoord}
OptLocations == {None} \cup Locations
Distances == 0..MaxDist
OptDistances == {None} \cup {<<d>> : d \in Distances}
OptDates == {None} \cup {<<d>> : d \in Dates}
Addresses == {"1 Seymour St"}
\* defaults.get("home_address"): absent, the empty string, or an address
OptHomeAddresses == {None, <<"">>} \cup {<<a>> : a \in Addresses}
MediaTypes == {"all", "photo", "video"}

\* The [defaults] table of config.toml
Configs ==
    [home_address : OptHomeAddresses,
     target_latlon : OptLocations,
     max_distance_km : OptDistances]

\* A PhotoInfo as the code reads it
MediaRecord(filename, date, location, isphoto) ==
    [filename |-> filename, path |-> "/tmp/" \o filename, date |-> date,
     location |-> location, isphoto |-> isphoto, ismovie |-> ~isphoto]

MediaRecords ==
    {MediaRecord("test.jpg", d, l, k) :
        d \in Dates, l \in OptLocations, k \in BOOLEAN}

Libraries == UNION {[1..n -> MediaRecords] : n \in 0..MaxPhotos}

\* The library of the session specification: the three records of the tests'
\* mock PhotosDB (a photo and a video at the same place, a photo elsewhere on
\* another day) and a photo without coordinates.
PhotosLibrary ==
    << MediaRecord("a.jpg", 1, <<0, 0>>, TRUE),
       MediaRecord("b.jpg", 0, <<0, 1>>, TRUE),
       MediaRecord("c.mov", 1, <<0, 0>>, FALSE),
       MediaRecord("d.jpg", 1, None, TRUE) >>

----------------------------------------------------------------------------
(* Pure helpers *)

Abs(x) == IF x < 0 THEN -x ELSE x

\* The sign of the rounding error of a float distance
Rounding == {-1, 0, 1}

\* geodesic(a, b).km for two points of the equator: the float the library
\* computes, <<whole km, sign of the rounding error>>.  The distance of a
\* point to itself is 0.0.
geodesic_km(a, b) ==
    IF a[2] = b[2] THEN <<0, 0>> ELSE <<Abs(a[2] - b[2]), rounding>>

\* distance < max_distance for a float distance and a whole max_distance
km_lt(distance, max_distance) ==
    \/ distance[1] < max_distance
    \/ (distance[1] = max_distance /\ distance[2] < 0)

\* distance <= max_distance for a float distance and a whole max_distance
km_le(distance, max_distance) ==
    \/ distance[1] < max_distance
    \/ (distance[1] = max_distance /\ distance[2] <= 0)

\* datetime.now() - timedelta(days=1)
yesterday(now) == now - 1

\* end_date if end_date is not None else datetime.now() - timedelta(days=1)
default_end_date(end, now) == IF end # None THEN end[1] ELSE yesterday(now)

\* Python truth of an optional string: None and "" are false
truthy_str(s) == s # None /\ s[1] # ""

----------------------------------------------------------------------------
(* Construction *)

CouldNotGeocode == "ValueError: Could not geocode home_address"
MustSpecify ==
    "ValueError: Must specify either target_location or home_address or target_latlon in config"

\* The spec's ConfigError at construction: the two ValueErrors __init__ raises
\* when no target location can be resolved.
ConfigError == {CouldNotGeocode, MustSpecify}

\* A mutant of resolve_target_location: the config's target_latlon is tried
\* before the explicit argument.
resolve_target_location_config_first(target, defaults, geocoded) ==
    IF defaults.target_latlon # None
    THEN [location |-> defaults.target_latlon, raised |-> None, geocoder_calls |-> 0]
    ELSE IF target # None
    THEN [location |-> target, raised |-> None, geocoder_calls |-> 0]
    ELSE IF truthy_str(defaults.home_address)
    THEN IF geocoded # None
         THEN [location |-> geocoded, raised |-> None, geocoder_calls |-> 1]
         ELSE [location |-> None, raised |-> <<CouldNotGeocode>>, geocoder_calls |-> 1]
    ELSE [location |-> None, raised |-> <<MustSpecify>>, geocoder_calls |-> 0]

\* "Set target location" in __init__.  geocoded is what
\* address_to_gps(home_address) answers if it is called.
resolve_target_location(target, defaults, geocoded) ==
    IF target # None
    THEN [location |-> target, raised |-> None, geocoder_calls |-> 0]
    ELSE IF defaults.target_latlon # None
    THEN [location |-> defaults.target_latlon, raised |-> None, geocoder_calls |-> 0]
    ELSE IF truthy_str(defaults.home_address)
    THEN IF geocoded # None
         THEN [location |-> geocoded, raised |-> None, geocoder_calls |-> 1]
         ELSE [location |-> None, raised |-> <<CouldNotGeocode>>, geocoder_calls |-> 1]
    ELSE [location |-> None, raised |-> <<MustSpecify>>, geocoder_calls |-> 0]

\* max_distance_km: the argument, else the config's value, else 2.0
resolve_max_distance(max_distance, defaults) ==
    IF max_distance # None THEN max_distance[1]
    ELSE IF defaults.max_distance_km # None THEN defaults.max_distance_km[1]
    ELSE DefaultMaxDistanceKm

\* MacPhotosFilter.__init__
MacPhotosFilter_init(start, end, target, defaults, max_distance, now, geocoded) ==
    /\ pc = "new"
    /\ UNCHANGED rounding
    /\ LET r == resolve_target_location(target, defaults, geocoded)
       IN /\ last' = [op |-> "__init__", target_arg |-> target,
                      target_latlon |-> defaults.target_latlon,
                      home_address |-> defaults.home_address,
                      geocoded |-> geocoded,
                      geocoder_calls |-> r.geocoder_calls,
                      raised |-> r.raised]
          /\ IF r.raised = None
             THEN /\ pc' = "ready"
                  /\ home_address' = defaults.home_address
                  /\ max_distance_km' = resolve_max_distance(max_distance, defaults)
                  /\ start_date' = start
                  /\ end_date' = default_end_date(end, now)
                  /\ target_location' = r.location
                  /\ photosdb' = PhotosLibrary
                  /\ filtered_media' = <<>>
                  /\ filter_returned' = None
             ELSE /\ pc' = "failed"
                  /\ UNCHANGED <<home_address, max_distance_km, start_date, end_date,
                                 target_location, photosdb, filtered_media, filter_returned>>

----------------------------------------------------------------------------
(* Criteria setters *)

\* A mutant of set_date_range: the change of criteria discards the
\* filtered list.
set_date_range_invalidates(start, end, now) ==
    /\ pc = "ready"
    /\ start_date' = start
    /\ end_date' = default_end_date(end, now)
    /\ filtered_media' = <<>>
    /\ last' = [op |-> "set_date_range"]
    /\ UNCHANGED <<rounding, pc, home_address, target_location, max_distance_km, photosdb,
                   filter_returned>>

\* MacPhotosFilter.set_date_range
set_date_range(start, end, now) ==
    /\ pc = "ready"
    /\ start_date' = start
    /\ end_date' = default_end_date(end, now)
    /\ last' = [op |-> "set_date_range"]
    /\ UNCHANGED <<rounding, pc, home_address, target_location, max_distance_km, photosdb,
                   filtered_media, filter_returned>>

\* A mutant of set_location_by_address: the geocoder's answer is assigned
\* before it is tested.
set_location_by_address_assign_first(address, coords) ==
    /\ pc = "ready"
    /\ target_location' = coords
    /\ last' = [op |-> "set_location_by_address", geocoded |-> coords,
                ret |-> coords # None]
    /\ UNCHANGED <<rounding, pc, home_address, start_date, end_date, max_distance_km,
                   photosdb, filtered_media, filter_returned>>

\* MacPhotosFilter.set_location_by_address.  coords is what
\* address_to_gps(address) answers: None or a pair.
set_location_by_address(address, coords) ==
    /\ pc = "ready"
    /\ IF coords # None
       THEN /\ target_location' = coords
            /\ last' = [op |-> "set_location_by_address", geocoded |-> coords,
                        ret |-> TRUE]
       ELSE /\ UNCHANGED target_location
            /\ last' = [op |-> "set_location_by_address", geocoded |-> coords,
                        ret |-> FALSE]
    /\ UNCHANGED <<rounding, pc, home_address, start_date, end_date, max_distance_km,
                   photosdb, filtered_media, filter_returned>>

\* MacPhotosFilter.set_location_by_gps
set_location_by_gps(lat, lon) ==
    /\ pc = "ready"
    /\ target_location' = <<lat, lon>>
    /\ last' = [op |-> "set_location_by_gps"]
    /\ UNCHANGED <<rounding, pc, home_address, start_date, end_date, max_distance_km,
                   photosdb, filtered_media, filter_returned>>

\* MacPhotosFilter.set_distance_km
set_distance_km(distance) ==
    /\ pc = "ready"
    /\ max_distance_km' = distance
    /\ last' = [op |-> "set_distance_km"]
    /\ UNCHANGED <<rounding, pc, home_address, start_date, end_date, target_location,
                   photosdb, filtered_media, filter_returned>>

----------------------------------------------------------------------------
(* filter_media and clear_filters *)

\* media_type == "all" or (media_type == "photo" and p.isphoto)
\*                     or (media_type == "video" and p.ismovie)
kind_matches(media_type, p) ==
    \/ media_type = "all"
    \/ (media_type = "photo" /\ p.isphoto)
    \/ (media_type = "video" /\ p.ismovie)

\* The first comprehension of filter_media: date window and kind
filter_by_date_kind(photos, start, end, media_type) ==
    SelectSeq(photos,
              LAMBDA p : start <= p.date /\ p.date <= end
                         /\ kind_matches(media_type, p))

\* A mutant of filter_by_distance: the distance test is strict.
filter_by_distance_strict(media, target, max_distance) ==
    SelectSeq(media,
              LAMBDA m : m.location # None
                         /\ km_lt(geodesic_km(target,
                                               <<m.location[1], m.location[2]>>),
                                  max_distance))

\* The second comprehension of filter_media: has a location, and is near
filter_by_distance(media, target, max_distance) ==
    SelectSeq(media,
              LAMBDA m : m.location # None
                         /\ km_le(geodesic_km(target,
                                               <<m.location[1], m.location[2]>>),
                                  max_distance))

\* What filter_media(media_type) computes in the current state
filter_media_result(media_type) ==
    filter_by_distance(
        filter_by_date_kind(photosdb, start_date, end_date, media_type),
        target_location, max_distance_km)

\* Whether this call repeats the previous call: the last call was
\* filter_media with the same media_type
repeats_last_call(media_type) ==
    last.op = "filter_media" /\ last.media_type = media_type

\* A mutant of filter_media: the result is added to the stored list instead
\* of replacing it.
filter_media_extend(media_type) ==
    /\ pc = "ready"
    /\ filtered_media' = filtered_media \o filter_media_result(media_type)
    /\ filter_returned' = <<filtered_media'>>
    /\ last' = [op |-> "filter_media", media_type |-> media_type,
                ret |-> filtered_media',
                again |-> repeats_last_call(media_type),
                before |-> IF repeats_last_call(media_type)
                           THEN filtered_media ELSE <<>>]
    /\ UNCHANGED <<rounding, pc, home_address, start_date, end_date, target_location,
                   max_distance_km, photosdb>>

\* MacPhotosFilter.filter_media.  last.again says that the call repeats the
\* previous one, and last.before is then the list the previous one left.
filter_media(media_type) ==
    /\ pc = "ready"
    /\ filtered_media' = filter_media_result(media_type)
    /\ filter_returned' = <<filtered_media'>>
    /\ last' = [op |-> "filter_media", media_type |-> media_type,
                ret |-> filtered_media',
                again |-> repeats_last_call(media_type),
                before |-> IF repeats_last_call(media_type)
                           THEN filtered_media ELSE <<>>]
    /\ UNCHANGED <<rounding, pc, home_address, start_date, end_date, target_location,
                   max_distance_km, photosdb>>

\* A mutant of clear_filters: the criteria are reset with the list.
clear_filters_resets_distance ==
    /\ pc = "ready"
    /\ filtered_media' = <<>>
    /\ filter_returned' = None
    /\ max_distance_km' = DefaultMaxDistanceKm
    /\ last' = [op |-> "clear_filters"]
    /\ UNCHANGED <<rounding, pc, home_address, start_date, end_date, target_location,
                   photosdb>>

\* MacPhotosFilter.clear_filters
clear_filters ==
    /\ pc = "ready"
    /\ filtered_media' = <<>>
    /\ filter_returned' = None
    /\ last' = [op |-> "clear_filters"]
    /\ UNCHANGED <<rounding, pc, home_address, start_date, end_date, target_location,
                   max_distance_km, photosdb>>

----------------------------------------------------------------------------
(* The writers.  Positions are Python's: the first record is at position 0. *)

NoOutput == [attempted |-> <<>>, thumbs |-> <<>>, errors |-> <<>>]

Thumb(count, i, m) == [index |-> count, pos |-> i - 1, filename |-> m.filename]

\* A mutant of thumbnail_loop: the file name carries the loop position.
RECURSIVE thumbnail_loop_by_position(_, _, _, _, _, _)
thumbnail_loop_by_position(media, i, count, max_media, fails, out) ==
    IF i > Len(media) \/ count >= max_media THEN out
    ELSE IF i \in fails
    THEN thumbnail_loop_by_position(media, i + 1, count, max_media, fails,
            [out EXCEPT !.attempted = Append(@, i - 1),
                        !.errors = Append(@, media[i].filename)])
    ELSE thumbnail_loop_by_position(media, i + 1, count + 1, max_media, fails,
            [out EXCEPT !.attempted = Append(@, i - 1),
                        !.thumbs = Append(@, Thumb(i - 1, i, media[i]))])

\* A mutant of thumbnail_loop: the counter also advances on a failure.
RECURSIVE thumbnail_loop_counts_failures(_, _, _, _, _, _)
thumbnail_loop_counts_failures(media, i, count, max_media, fails, out) ==
    IF i > Len(media) \/ count >= max_media THEN out
    ELSE IF i \in fails
    THEN thumbnail_loop_counts_failures(media, i + 1, count + 1, max_media, fails,
            [out EXCEPT !.attempted = Append(@, i - 1),
                        !.errors = Append(@, media[i].filename)])
    ELSE thumbnail_loop_counts_failures(media, i + 1, count + 1, max_media, fails,
            [out EXCEPT !.attempted = Append(@, i - 1),
                        !.thumbs = Append(@, Thumb(count, i, media[i]))])

\* A mutant of thumbnail_loop: no try/except, the first failure ends the loop.
RECURSIVE thumbnail_loop_aborts(_, _, _, _, _, _)
thumbnail_loop_aborts(media, i, count, max_media, fails, out) ==
    IF i > Len(media) \/ count >= max_media THEN out
    ELSE IF i \in fails
    THEN [out EXCEPT !.attempted = Append(@, i - 1),
                     !.errors = Append(@, media[i].filename)]
    ELSE thumbnail_loop_aborts(media, i + 1, count + 1, max_media, fails,
            [out EXCEPT !.attempted = Append(@, i - 1),
                        !.thumbs = Append(@, Thumb(count, i, media[i]))])

\* The loop of save_thumbnails from the record at index i (1-based here) with
\* `count` thumbnails written so far.  fails are the indices at which
\* Image.open, img.thumbnail or img.save raises.
RECURSIVE thumbnail_loop(_, _, _, _, _, _)
thumbnail_loop(media, i, count, max_media, fails, out) ==
    IF i > Len(media) \/ count >= max_media THEN out
    ELSE IF i \in fails
    THEN thumbnail_loop(media, i + 1, count, max_media, fails,
            [out EXCEPT !.attempted = Append(@, i - 1),
                        !.errors = Append(@, media[i].filename)])
    ELSE thumbnail_loop(media, i + 1, count + 1, max_media, fails,
            [out EXCEPT !.attempted = Append(@, i - 1),
                        !.thumbs = Append(@, Thumb(count, i, media[i]))])

\* MacPhotosFilter.save_thumbnails
save_thumbnails(max_media, fails) ==
    /\ pc = "ready"
    /\ LET out == thumbnail_loop(filtered_media, 1, 0, max_media, fails, NoOutput)
       IN last' = [op |-> "save_thumbnails", max_media |-> max_media,
                   fails |-> {i - 1 : i \in fails},
                   attempted |-> out.attempted, thumbs |-> out.thumbs,
                   errors |-> out.errors, raised |-> None]
    /\ UNCHANGED <<rounding, pc, home_address, start_date, end_date, target_location,
                   max_distance_km, photosdb, filtered_media, filter_returned>>

\* MacPhotosFilter.list_media_info
list_media_info ==
    /\ pc = "ready"
    /\ last' = [op |-> "list_media_info",
                ret |-> [i \in 1..Len(filtered_media) |->
                            [filename |-> filtered_media[i].filename,
                             date |-> filtered_media[i].date,
                             location |-> filtered_media[i].location,
                             path |-> filtered_media[i].path,
                             type |-> IF filtered_media[i].isphoto
                                      THEN "photo" ELSE "video"]]]
    /\ UNCHANGED <<rounding, pc, home_address, start_date, end_date, target_location,
                   max_distance_km, photosdb, filtered_media, filter_returned>>

\* MacPhotosFilter.save_filtered_media_paths
save_filtered_media_paths ==
    /\ pc = "ready"
    /\ last' = [op |-> "save_filtered_media_paths",
                written |-> [i \in 1..Len(filtered_media) |->
                                filtered_media[i].path \o "\n"]]
    /\ UNCHANGED <<rounding, pc, home_address, start_date, end_date, target_location,
                   max_distance_km, photosdb, filtered_media, filter_returned>>

ExportFailure == "ExportFailure"

Export(i, m, original, edited) ==
    [pos |-> i - 1, filename |-> m.filename, original |-> original, edited |-> edited]

\* A mutant of export_loop: a failing record is skipped and the loop goes on.
RECURSIVE export_loop_skips_failures(_, _, _, _, _, _)
export_loop_skips_failures(media, i, original, edited, fails, out) ==
    IF i > Len(media) THEN out
    ELSE IF i \in fails
    THEN export_loop_skips_failures(media, i + 1, original, edited, fails, out)
    ELSE export_loop_skips_failures(media, i + 1, original, edited, fails,
            [out EXCEPT !.exported = Append(@, Export(i, media[i], original, edited))])

\* The loop of export_filtered_media from the record at index i (1-based
\* here).  fails are the indices at which media.export raises.
RECURSIVE export_loop(_, _, _, _, _, _)
export_loop(media, i, original, edited, fails, out) ==
    IF i > Len(media) THEN out
    ELSE IF i \in fails
    THEN [out EXCEPT !.raised = <<ExportFailure>>, !.failed_at = <<i - 1>>]
    ELSE export_loop(media, i + 1, original, edited, fails,
            [out EXCEPT !.exported = Append(@, Export(i, media[i], original, edited))])

\* MacPhotosFilter.export_filtered_media
export_filtered_media(original, edited, fails) ==
    /\ pc = "ready"
    /\ LET out == export_loop(filtered_media, 1, original, edited, fails,
                              [exported |-> <<>>, raised |-> None, failed_at |-> None])
       IN last' = [op |-> "export_filtered_media", original |-> original,
                   edited |-> edited, fails |-> {i - 1 : i \in fails},
                   exported |-> out.exported, raised |-> out.raised,
                   failed_at |-> out.failed_at]
    /\ UNCHANGED <<rounding, pc, home_address, start_date, end_date, target_location,
                   max_distance_km, photosdb, filtered_media, filter_returned>>

----------------------------------------------------------------------------
(* The session: construction, then any sequence of calls *)

Undefined == None

Init ==
    /\ rounding \in Rounding
    /\ pc = "new"
    /\ home_address = Undefined
    /\ start_date = Epoch
    /\ end_date = Epoch
    /\ target_location = Undefined
    /\ max_distance_km = 0
    /\ photosdb = <<>>
    /\ filtered_media = <<>>
    /\ filter_returned = None
    /\ last = [op |-> "none"]

\* The 1-based indices of filtered_media
Indices == 1..Len(filtered_media)

\* A session is constructed once; the arguments are drawn only then.
Construct ==
    /\ pc = "new"
    /\ \E start \in Dates, end \in OptDates, target \in OptLocations,
          defaults \in Configs, max_distance \in OptDistances, now \in Clock,
          geocoded \in OptLocations :
           MacPhotosFilter_init(start, end, target, defaults, max_distance, now, geocoded)

SetDateRange ==
    \E start \in Dates, end \in OptDates, now \in Clock :
        set_date_range(start, end, now)

SetLocationByAddress ==
    \E address \in Addresses, coords \in OptLocations :
        set_location_by_address(address, coords)

SetLocationByGps == \E l \in Locations : set_location_by_gps(l[1], l[2])

SetDistanceKm == \E d \in Distances : set_distance_km(d)

FilterMedia == \E media_type \in MediaTypes : filter_media(media_type)

ClearFilters == clear_filters

ListMediaInfo == list_media_info

SaveFilteredMediaPaths == save_filtered_media_paths

\* fails: the indices at which thumbnailing raises in this call
SaveThumbnails ==
    \E max_media \in 0..MaxMedia, fails \in SUBSET Indices :
        save_thumbnails(max_media, fails)

\* fails: the indices at which media.export raises in this call
ExportFilteredMedia ==
    \E original \in BOOLEAN, edited \in BOOLEAN, fails \in SUBSET Indices :
        export_filtered_media(original, edited, fails)

Next ==
    \/ Construct
    \/ SetDateRange
    \/ SetLocationByAddress
    \/ SetLocationByGps
    \/ SetDistanceKm
    \/ FilterMedia
    \/ ClearFilters
    \/ SaveThumbnails
    \/ ListMediaInfo
    \/ SaveFilteredMediaPaths
    \/ ExportFilteredMedia

Spec == Init /\ [][Next]_vars

----------------------------------------------------------------------------
(* The filter alone, on every library of the bounds, every date window,    *)
(* every max_distance_km and every rounding.  The target is <<0, 0>> and  *)
(* the records lie at every coordinate, so every separation occurs; the   *)
(* session specification moves the target.                                 *)

InitFilter ==
    /\ rounding \in Rounding
    /\ pc = "ready"
    /\ home_address = None
    /\ start_date \in Dates
    /\ end_date \in Dates
    /\ target_location = <<0, 0>>
    /\ max_distance_km \in Distances
    /\ photosdb \in Libraries
    /\ filtered_media = <<>>
    /\ filter_returned = None
    /\ last = [op |-> "none"]

NextFilter == FilterMedia

SpecFilter == InitFilter /\ [][NextFilter]_vars

----------------------------------------------------------------------------
(* The writers alone, on every filtered list of the bounds and every        *)
(* pattern of failures.  A run starts in the state filter_media("all")     *)
(* leaves when every record of the library is in range.                    *)

Filename(i) == "img" \o ToString(i) \o ".jpg"

WriterLibraries ==
    UNION {{[i \in 1..n |-> MediaRecord(Filename(i), Epoch, <<0, 0>>, k[i])] :
                k \in [1..n -> BOOLEAN]} : n \in 0..MaxFiltered}

InitWriters ==
    /\ rounding \in Rounding
    /\ pc = "ready"
    /\ home_address = None
    /\ start_date = Epoch
    /\ end_date = MaxDate
    /\ target_location = <<0, 0>>
    /\ max_distance_km = 0
    /\ photosdb \in WriterLibraries
    /\ filtered_media = filter_media_result("all")
    /\ filter_returned = <<filtered_media>>
    /\ last = [op |-> "filter_media", media_type |-> "all",
               ret |-> filtered_media, again |-> FALSE, before |-> <<>>]

NextWriters ==
    \/ SaveThumbnails
    \/ ExportFilteredMedia
    \/ ListMediaInfo
    \/ SaveFilteredMediaPaths

SpecWriters == InitWriters /\ [][NextWriters]_vars

----------------------------------------------------------------------------
(* What the specification says filter_media returns *)

\* A distance is beyond max_distance: more whole km, or the same whole km
\* and a float just above it
Beyond(distance, max_distance) ==
    \/ distance[1] > max_distance
    \/ (distance[1] = max_distance /\ distance[2] > 0)

\* A record matches: it has coordinates, its date is in [start, end], its
\* kind is the requested one and the distance computed for it is not beyond
\* max_distance.
Matches(p, start, end, target, max_distance, media_type) ==
    /\ p.location # None
    /\ p.date \in start..end
    /\ CASE media_type = "all" -> TRUE
         [] media_type = "photo" -> p.isphoto
         [] media_type = "video" -> p.ismovie
    /\ ~Beyond(geodesic_km(target, p.location), max_distance)

\* The n-th smallest element of a set of numbers
Nth(K, n) == CHOOSE i \in K : Cardinality({k \in K : k <= i}) = n

\* The subsequence of photos made of the matching records, in order
MatchingSubsequence(photos, start, end, target, max_distance, media_type) ==
    LET K == {i \in 1..Len(photos) :
                Matches(photos[i], start, end, target, max_distance, media_type)}
    IN [n \in 1..Cardinality(K) |-> photos[Nth(K, n)]]

Min(a, b) == IF a <= b THEN a ELSE b

\* C1: filter_media returns, and stores, exactly the matching records in
\* enumeration order; both bounds are inclusive, so a record dated start or
\* end whose computed distance is exactly max_distance is in the result, and
\* a record without coordinates never is.  The distance is the float the
\* code computes: a record whose float is just above max_distance is not in
\* the result, whatever the whole number of km it stands for.
C1_FilterMediaExact ==
    last.op = "filter_media" =>
        /\ last.ret = MatchingSubsequence(photosdb, start_date, end_date,
                          target_location, max_distance_km, last.media_type)
        /\ filtered_media = last.ret
        /\ \A i \in 1..Len(photosdb) :
              LET p == photosdb[i] IN
              /\ ( /\ p.location # None
                   /\ p.date \in {start_date, end_date}
                   /\ start_date <= end_date
                   /\ geodesic_km(target_location, p.location) = <<max_distance_km, 0>>
                   /\ kind_matches(last.media_type, p) )
                 => \E j \in 1..Len(last.ret) : last.ret[j] = p
              /\ ( /\ p.location # None
                   /\ geodesic_km(target_location, p.location) = <<max_distance_km, 1>> )
                 => \A j \in 1..Len(last.ret) : last.ret[j] # p
              /\ p.location = None
                 => \A j \in 1..Len(last.ret) : last.ret[j] # p

\* A library whose first record has no coordinates and whose second is on
\* both boundaries (dated end_date, computed distance exactly
\* max_distance_km), filtered.
C1_Witness ==
    /\ last.op = "filter_media"
    /\ Len(photosdb) = 2
    /\ photosdb[1].location = None
    /\ photosdb[2].location # None
    /\ photosdb[2].date = end_date
    /\ start_date < end_date
    /\ max_distance_km > 0
    /\ geodesic_km(target_location, photosdb[2].location) = <<max_distance_km, 0>>
    /\ last.ret = <<photosdb[2]>>

\* The calls that are neither filter_media nor clear_filters
FrameOps ==
    {"set_date_range", "set_location_by_address", "set_location_by_gps",
     "set_distance_km", "save_thumbnails", "list_media_info",
     "save_filtered_media_paths", "export_filtered_media"}

\* What the most recent filter_media returned, the empty sequence if none
\* was called since construction or the last clear_filters
MostRecentResult == IF filter_returned = None THEN <<>> ELSE filter_returned[1]

\* C2: in every state the FilteredSet is the empty sequence (no filter_media
\* since construction or the last clear_filters) or the full result the most
\* recent filter_media returned, which is the matching subsequence for the
\* criteria in force at that call; and step by step, every setter and every
\* writer leaves it exactly as it was, filter_media replaces it by that
\* result and clear_filters by the empty sequence.
C2_FilteredSetFrame ==
    /\ [](/\ filtered_media = MostRecentResult
          /\ last.op = "filter_media" =>
                filter_returned = <<MatchingSubsequence(photosdb, start_date,
                                        end_date, target_location, max_distance_km,
                                        last.media_type)>>)
    /\ [][ /\ last'.op = "__init__" => filtered_media' = <<>>
           /\ last'.op \in FrameOps => filtered_media' = filtered_media
           /\ last'.op = "filter_media" =>
                 filtered_media' = MatchingSubsequence(photosdb, start_date, end_date,
                                       target_location, max_distance_km, last'.media_type)
           /\ last'.op = "clear_filters" => filtered_media' = <<>>
         ]_vars

\* A setter has run on a session whose FilteredSet is no longer what
\* filter_media would compute now.
C2_Witness ==
    /\ last.op = "set_distance_km"
    /\ filtered_media # <<>>
    /\ \A media_type \in MediaTypes : filtered_media # filter_media_result(media_type)

\* C3: set_location_by_address returns False and changes no session field
\* when the geocoder has no match, and returns True with target_location set
\* to the geocoder's pair when it has one.
C3_SetLocationByAddress ==
    [][ last'.op = "set_location_by_address" =>
          IF last'.geocoded = None
          THEN /\ last'.ret = FALSE
               /\ UNCHANGED <<pc, home_address, start_date, end_date, target_location,
                              max_distance_km, photosdb, filtered_media>>
          ELSE /\ last'.ret = TRUE
               /\ target_location' = last'.geocoded
               /\ UNCHANGED <<pc, home_address, start_date, end_date,
                              max_distance_km, photosdb, filtered_media>>
      ]_vars

\* A geocoder miss on a session that holds a filtered list
C3_Witness ==
    /\ last.op = "set_location_by_address"
    /\ last.geocoded = None
    /\ last.ret = FALSE
    /\ target_location # None
    /\ filtered_media # <<>>

\* C4: construction takes the target location from the explicit argument,
\* else from the config's target_latlon, else from the geocoded
\* home_address, and asks the geocoder only in the third case; when none is
\* available it raises and leaves no session, so filter_media only ever runs
\* with a target location.
C4_TargetResolution ==
    /\ last.op = "__init__" =>
          IF last.target_arg # None
          THEN pc = "ready" /\ target_location = last.target_arg
               /\ last.geocoder_calls = 0
          ELSE IF last.target_latlon # None
          THEN pc = "ready" /\ target_location = last.target_latlon
               /\ last.geocoder_calls = 0
          ELSE IF truthy_str(last.home_address) /\ last.geocoded # None
          THEN pc = "ready" /\ target_location = last.geocoded
               /\ last.geocoder_calls = 1
          ELSE /\ pc = "failed"
               /\ last.raised # None /\ last.raised[1] \in ConfigError
               /\ target_location = Undefined
    /\ pc = "ready" => target_location \in Locations
    /\ last.op = "filter_media" => pc = "ready" /\ target_location \in Locations

\* Construction failed on a home_address the geocoder could not resolve.
C4_Witness ==
    /\ last.op = "__init__"
    /\ pc = "failed"
    /\ last.target_arg = None
    /\ last.target_latlon = None
    /\ truthy_str(last.home_address)
    /\ last.geocoder_calls = 1

\* C5: clear_filters leaves the FilteredSet empty and the criteria as they
\* were, so filter_media computes after it what it computed before it.
C5_ClearFilters ==
    [][ last'.op = "clear_filters" =>
          /\ filtered_media' = <<>>
          /\ UNCHANGED <<start_date, end_date, target_location, max_distance_km>>
          /\ \A media_type \in MediaTypes :
                filter_media_result(media_type)' = filter_media_result(media_type)
      ]_vars

\* clear_filters has run on criteria that match records of the library
C5_Witness ==
    /\ last.op = "clear_filters"
    /\ filtered_media = <<>>
    /\ Len(filter_media_result("all")) >= 2

\* C8: a filter_media call that repeats the previous call returns what the
\* previous one returned and leaves the FilteredSet as the previous one left
\* it.
C8_FilterMediaIdempotent ==
    (last.op = "filter_media" /\ last.again) =>
        /\ last.ret = last.before
        /\ filtered_media = last.before

\* filter_media called twice in a row, with a result that is not empty
C8_Witness ==
    /\ last.op = "filter_media"
    /\ last.again
    /\ Len(last.ret) >= 2

----------------------------------------------------------------------------
(* save_thumbnails and export_filtered_media *)

\* The positions of filtered_media
Positions == 0..(Len(filtered_media) - 1)

\* The positions whose thumbnailing succeeds in the last save_thumbnails call
Succeeding == Positions \ last.fails

\* The number of succeeding positions before position p
SuccessesBefore(p) == Cardinality({q \in Succeeding : q < p})

\* C6: save_thumbnails raises nothing, visits the FilteredSet in order from
\* its first record, writes min(max_media, number of succeeding records)
\* thumbnails, attempts a record only while fewer than max_media have
\* succeeded before it, skips a failing record and goes on, and attempts
\* every record when fewer than max_media succeed.
C6_SaveThumbnailsStops ==
    last.op = "save_thumbnails" =>
        /\ last.raised = None
        /\ Len(last.thumbs) = Min(last.max_media, Cardinality(Succeeding))
        /\ \A j \in 1..Len(last.attempted) : last.attempted[j] = j - 1
        /\ \A p \in Positions :
              (\E j \in 1..Len(last.attempted) : last.attempted[j] = p)
                  <=> SuccessesBefore(p) < last.max_media
        /\ Cardinality(Succeeding) < last.max_media
              => Len(last.attempted) = Len(filtered_media)
        /\ Len(last.errors) + Len(last.thumbs) = Len(last.attempted)

\* Three records, the first fails, max_media is 1: the second is written and
\* the third is not attempted.
C6_Witness ==
    /\ last.op = "save_thumbnails"
    /\ Len(filtered_media) = 3
    /\ last.max_media = 1
    /\ last.fails = {0}
    /\ last.attempted = <<0, 1>>
    /\ Len(last.thumbs) = 1

\* The first failing position of the last export_filtered_media call
FirstFailure == CHOOSE f \in last.fails : \A g \in last.fails : f <= g

\* C7: export_filtered_media exports the records in stored order with the
\* given flags, every one of them when none fails; when one fails the
\* failure reaches the caller, the records before it have been exported and
\* none after it; the FilteredSet and the criteria are unchanged.
C7_ExportPropagates ==
    [][ last'.op = "export_filtered_media" =>
          /\ UNCHANGED <<filtered_media, start_date, end_date, target_location,
                         max_distance_km>>
          /\ \A j \in 1..Len(last'.exported) :
                last'.exported[j] =
                    [pos |-> j - 1, filename |-> filtered_media[j].filename,
                     original |-> last'.original, edited |-> last'.edited]
          /\ IF last'.fails = {}
             THEN /\ last'.raised = None
                  /\ Len(last'.exported) = Len(filtered_media)
             ELSE /\ last'.raised = <<ExportFailure>>
                  /\ Len(last'.exported) = FirstFailure'
      ]_vars

\* Three records, the export of the second fails: one record was exported.
C7_Witness ==
    /\ last.op = "export_filtered_media"
    /\ Len(filtered_media) = 3
    /\ last.fails = {1}
    /\ last.raised # None
    /\ Len(last.exported) = 1

\* C9: the thumbnails one save_thumbnails call writes carry the indices
\* 0, 1, ..., k-1 without gaps, in FilteredSet order, whatever records fail.
C9_ThumbnailIndicesDense ==
    last.op = "save_thumbnails" =>
        /\ \A j \in 1..Len(last.thumbs) : last.thumbs[j].index = j - 1
        /\ \A j \in 1..Len(last.thumbs) :
              /\ last.thumbs[j].pos \in Succeeding
              /\ last.thumbs[j].filename
                    = filtered_media[last.thumbs[j].pos + 1].filename
        /\ \A i, j \in 1..Len(last.thumbs) :
              i < j => last.thumbs[i].pos < last.thumbs[j].pos

\* Two thumbnails written around a failing record
C9_Witness ==
    /\ last.op = "save_thumbnails"
    /\ last.fails = {1}
    /\ Len(last.thumbs) = 2
    /\ last.thumbs[2].pos = 2

\* C10 as claimed: the thumbnail of the record at position i carries index
\* i, also when records before it failed.
C10_IndexIsLoopPosition ==
    last.op = "save_thumbnails" =>
        \A j \in 1..Len(last.thumbs) : last.thumbs[j].index = last.thumbs[j].pos

\* C10 as amended: a failed record is skipped without ending the iteration,
\* and the thumbnail of the record at position i carries the number of
\* records before i that succeeded: i less the failures before it.
C10_IndexIsSuccessCount ==
    last.op = "save_thumbnails" =>
        /\ \A j \in 1..Len(last.thumbs) :
              LET i == last.thumbs[j].pos IN
              last.thumbs[j].index
                  = i - Cardinality({f \in last.fails : f < i})
        /\ \A p \in Succeeding :
              SuccessesBefore(p) < last.max_media
                  => \E j \in 1..Len(last.thumbs) : last.thumbs[j].pos = p

\* The first record failed and the second was written with index 0.
C10_Witness ==
    /\ last.op = "save_thumbnails"
    /\ 0 \in last.fails
    /\ Len(last.thumbs) >= 1
    /\ last.thumbs[1].pos = 1
    /\ last.thumbs[1].index = 0

====
